---------------------------- MODULE Spec2Model ----------------------------
(***************************************************************************)
(* Model of app.py (oracle-mvp): a FastAPI application that stores one     *)
(* Scan row per uploaded or captured image.                                *)
(*                                                                         *)
(* Strings and paths are sequences of tokens (a token is one character or  *)
(* a chunk that contains neither "/" nor "."), so that str(), Path.name,   *)
(* Path.suffix and the f-strings are computed and not assumed.             *)
(*                                                                         *)
(* The handlers are plain `def` routes: the framework runs each request on *)
(* a worker thread, so requests interleave at every blocking call.         *)
(***************************************************************************)
EXTENDS Integers, Sequences, FiniteSets, TLC

VARIABLES
    clock,      \* datetime.utcnow(), in whole seconds
    onPath,     \* camera CLI names that shutil.which() finds
    usrBin,     \* camera CLI names for which /usr/bin/<name> exists
    scans,      \* the table of Scan rows
    files,      \* the file system below ROOT: path string -> content
    req,        \* per worker: the request it is handling
    pc,         \* per worker: position inside the handler
    loc,        \* per worker: the handler's local variables
    resp,       \* the response a handler returned in the step just taken
    created     \* history: the values each INSERT was issued with

vars == <<clock, onPath, usrBin, scans, files, req, pc, loc, resp, created>>

-----------------------------------------------------------------------------
(* Bounds of the model *)

MaxClock == 1
MaxScans == 2

\* The worker threads that handle requests concurrently.
Workers == {"w1", "w2"}

\* Contents of uploaded files and of camera stills.
Blobs == {"bytes"}

\* The exit statuses of the camera process.
ReturnCodes == {0, 1}
CameraStill == "still"

\* The installations of the camera CLIs the model starts from: what
\* shutil.which() finds and what exists below /usr/bin.
CameraSetups ==
    { [onPath |-> {}, usrBin |-> {}],
      [onPath |-> {"libcamera-still"}, usrBin |-> {}],
      [onPath |-> {"libcamera-still"}, usrBin |-> {"rpicam-still"}] }

\* The file names a client sends with an upload.
Filenames ==
    { <<"a", ".", "J", "P", "G">>,
      <<"b", ".", "p", "n", "g">>,
      <<"c">>,
      <<".", "h">>,
      <<"d", "/", "e", ".", "j", "p", "g">> }

-----------------------------------------------------------------------------
(* Paths & folders *)

ROOT == <<"/", "srv">>

Join(dir, name) == dir \o <<"/">> \o name

DATA_DIR == Join(ROOT, <<"data">>)

IMG_DIR == Join(DATA_DIR, <<"images">>)

MaxOf(S) == CHOOSE x \in S : \A y \in S : y <= x

\* Path(p).name: what follows the last separator.
PathName(p) ==
    LET seps == {i \in 1..Len(p) : p[i] = "/"}
    IN  IF seps = {} THEN p ELSE SubSeq(p, MaxOf(seps) + 1, Len(p))

\* Path(p).suffix: from the last dot of the name, unless the dot is the
\* first or the last character of the name.
PathSuffix(p) ==
    LET name == PathName(p)
        dots == {i \in 1..Len(name) : name[i] = "."}
    IN  IF dots = {} THEN <<>>
        ELSE LET i == MaxOf(dots)
             IN  IF 1 < i /\ i < Len(name) THEN SubSeq(name, i, Len(name))
                 ELSE <<>>

LowerChar(c) ==
    CASE c = "J" -> "j"
      [] c = "P" -> "p"
      [] c = "G" -> "g"
      [] OTHER -> c

Lower(s) == [i \in 1..Len(s) |-> LowerChar(s[i])]

-----------------------------------------------------------------------------
(* Helpers *)

Digit == <<"0", "1", "2", "3", "4", "5", "6", "7", "8", "9">>

TwoDigits(n) == <<Digit[((n \div 10) % 10) + 1], Digit[(n % 10) + 1]>>

\* _timestamp(): strftime("%Y%m%d_%H%M%S") of the clock; the model's runs
\* stay inside one hour, so date and hour are one fixed chunk.
Timestamp(t) ==
    <<"20260101_00">> \o TwoDigits((t \div 60) % 60) \o TwoDigits(t % 60)

CameraNames == <<"rpicam-still", "libcamera-still">>

None == <<>>

LocalBin == <<"/", "usr", "/", "local", "/", "bin">>

UsrBin == <<"/", "usr", "/", "bin">>

\* shutil.which(name) or f"/usr/bin/{name}"
WhichOrDefault(name) ==
    IF name \in onPath THEN Join(LocalBin, <<name>>) ELSE Join(UsrBin, <<name>>)

\* Path(path).exists() for a camera CLI path
BinExists(path) ==
    \/ \E name \in onPath : path = Join(LocalBin, <<name>>)
    \/ \E name \in usrBin : path = Join(UsrBin, <<name>>)

\* Faulty variant of _camera_bin(): the path is returned without the exists() test.
CameraBinUnchecked == WhichOrDefault(CameraNames[1])

\* _camera_bin(): the first of the two names whose path exists, else None.
CameraBin ==
    LET found == {i \in 1..Len(CameraNames) : BinExists(WhichOrDefault(CameraNames[i]))}
    IN  IF found = {} THEN None
        ELSE WhichOrDefault(CameraNames[CHOOSE i \in found : \A j \in found : i <= j])

\* fs_path_to_url(p)
fs_path_to_url(p) == <<"/", "images", "/">> \o PathName(p)

\* capture_photo(): the output path
CapturePath(t) == Join(IMG_DIR, <<"capture_">> \o Timestamp(t) \o <<".", "j", "p", "g">>)

\* save_upload(): the output path
UploadPath(t, filename) ==
    LET suffix == IF Lower(PathSuffix(filename)) = <<>> THEN <<".", "j", "p", "g">>
                  ELSE Lower(PathSuffix(filename))
    IN  Join(IMG_DIR, <<"scan_">> \o Timestamp(t) \o suffix)

WriteFile(path, data) == (path :> data) @@ files

-----------------------------------------------------------------------------
(* The table *)

NoScan == [id |-> 0, image_path |-> None, status |-> "", specimen |-> "None",
           captured_at |-> 0]

Ids(rows) == {row.id : row \in rows}

\* SQLite assigns an INTEGER PRIMARY KEY the largest rowid plus one.
NextId(rows) == IF rows = {} THEN 1 ELSE MaxOf(Ids(rows)) + 1

\* Scan(image_path=..., status=...) as it is after commit and refresh
NewScan(rows, image_path, status) ==
    [id |-> NextId(rows), image_path |-> image_path, status |-> status,
     specimen |-> "None", captured_at |-> clock]

\* Faulty variant of the insert: the commit is issued twice and stores two rows.
InsertScanTwice(rows, rec) == rows \cup {rec, [rec EXCEPT !.id = rec.id + 1]}

\* Faulty variant of the insert: a row with the same image_path is replaced.
InsertScanReplace(rows, rec) ==
    {row \in rows : row.image_path # rec.image_path} \cup {rec}

\* s.add(rec); s.commit()
InsertScan(rows, rec) == rows \cup {rec}

\* Faulty variant of s.get(): the newest row is returned for any id that exists.
GetNewest(rows, scan_id) ==
    IF scan_id \in Ids(rows) THEN CHOOSE row \in rows : row.id = MaxOf(Ids(rows))
    ELSE NoScan

\* s.get(Scan, scan_id)
Get(rows, scan_id) ==
    IF scan_id \in Ids(rows) THEN CHOOSE row \in rows : row.id = scan_id
    ELSE NoScan

-----------------------------------------------------------------------------
(* Requests *)

NoLocals == [out_path |-> None, data |-> "", cam |-> None, runs |-> 0,
             returncode |-> 0, rec |-> NoScan]

NoRequest == [route |-> "", scan_id |-> 0]

NoResponse == [worker |-> "", request |-> NoRequest, code |-> 0, location |-> 0,
               body |-> "", scan |-> NoScan, image_url |-> None, specimens |-> <<>>]

Html(code, body) == [NoResponse EXCEPT !.code = code, !.body = body]

NoCameraMessage == "No camera CLI found."

CaptureFailedMessage == "Camera capture failed (rpi/libcamera error)"

NotFoundMessage == "Scan not found."

\* Rows plus create requests in flight, so that the table stays bounded.
Pending == Cardinality(scans) + Cardinality({r \in Workers : pc[r] # "idle"})

Request(route, scan_id) == [route |-> route, scan_id |-> scan_id]

Init ==
    /\ clock = 0
    /\ \E setup \in CameraSetups : onPath = setup.onPath /\ usrBin = setup.usrBin
    /\ scans = {}
    /\ files = <<>>
    /\ req = [r \in Workers |-> NoRequest]
    /\ pc = [r \in Workers |-> "idle"]
    /\ loc = [r \in Workers |-> NoLocals]
    /\ resp = NoResponse
    /\ created = {}

\* Time passes.
Tick ==
    /\ clock < MaxClock
    /\ clock' = clock + 1
    /\ resp' = NoResponse
    /\ UNCHANGED <<onPath, usrBin, scans, files, req, pc, loc, created>>

\* The framework calls the route's handler on an idle worker.
Receive(r, route, scan_id) ==
    /\ pc[r] = "idle"
    /\ req' = [req EXCEPT ![r] = Request(route, scan_id)]

\* A handler that answers in the step in which it is called.
Answer(r, route, scan_id, response) ==
    /\ pc[r] = "idle"
    /\ resp' = [response EXCEPT !.worker = r, !.request = Request(route, scan_id)]
    /\ UNCHANGED <<req, pc, loc>>

\* The handler returns: its locals are gone, the response is sent.
Return(r, response) ==
    /\ pc' = [pc EXCEPT ![r] = "idle"]
    /\ req' = [req EXCEPT ![r] = NoRequest]
    /\ loc' = [loc EXCEPT ![r] = NoLocals]
    /\ resp' = [response EXCEPT !.worker = r, !.request = req[r]]

\* GET /
Home(r) ==
    /\ Answer(r, "home", 0, Html(200, "home.html"))
    /\ UNCHANGED <<clock, onPath, usrBin, scans, files, created>>

\* GET /scan/new
ScanNew(r) ==
    /\ Answer(r, "scan_new", 0, Html(200, "scan.html"))
    /\ UNCHANGED <<clock, onPath, usrBin, scans, files, created>>

\* GET /specimens: the list is read from data/specimens.json when it exists.
Specimens(r) ==
    /\ \E data \in {<<>>, <<"moth">>} :
          Answer(r, "specimens", 0, [Html(200, "specimens.html") EXCEPT !.specimens = data])
    /\ UNCHANGED <<clock, onPath, usrBin, scans, files, created>>

\* POST /scan, save_upload(): the name is fixed from the clock and the
\* suffix of the client's file name.
SaveUploadBegin(r, filename, data) ==
    /\ Receive(r, "scan", 0)
    /\ Pending < MaxScans
    /\ loc' = [loc EXCEPT ![r].out_path = UploadPath(clock, filename), ![r].data = data]
    /\ pc' = [pc EXCEPT ![r] = "write"]
    /\ resp' = NoResponse
    /\ UNCHANGED <<clock, onPath, usrBin, scans, files, created>>

\* Faulty variant of save_upload(): the path is returned, the file is not written.
SaveUploadNoWrite(r) ==
    /\ pc[r] = "write"
    /\ pc' = [pc EXCEPT ![r] = "insert"]
    /\ resp' = NoResponse
    /\ UNCHANGED <<clock, onPath, usrBin, scans, files, req, loc, created>>

\* save_upload(): out_path.open("wb") creates the file or truncates the one
\* that is there, copyfileobj fills it and the with block closes it.  No
\* handler reads the images directory, so the write is one step.
SaveUploadWrite(r) ==
    /\ pc[r] = "write"
    /\ files' = WriteFile(loc[r].out_path, loc[r].data)
    /\ pc' = [pc EXCEPT ![r] = "insert"]
    /\ resp' = NoResponse
    /\ UNCHANGED <<clock, onPath, usrBin, scans, req, loc, created>>

\* The session block of a create handler: add, commit, refresh.
Insert(r, status) ==
    LET rec == NewScan(scans, loc[r].out_path, status)
    IN  /\ scans' = InsertScan(scans, rec)
        /\ created' = created \cup {[id |-> rec.id, image_path |-> loc[r].out_path,
                                     route |-> req[r].route]}
        /\ loc' = [loc EXCEPT ![r].rec = rec]
        /\ pc' = [pc EXCEPT ![r] = "redirect"]
        /\ resp' = NoResponse
        /\ UNCHANGED <<clock, onPath, usrBin, files, req>>

\* POST /scan, the session block
InsertUploaded(r) ==
    /\ pc[r] = "insert" /\ req[r].route = "scan"
    /\ Insert(r, "uploaded")

\* Faulty variant of the capture handler: the row is stored with the upload status.
InsertCapturedAsUploaded(r) ==
    /\ pc[r] = "exited" /\ loc[r].returncode = 0
    /\ Insert(r, "uploaded")

\* POST /capture, the session block: subprocess.run(check=True) returned,
\* so the process exited 0.
InsertCaptured(r) ==
    /\ pc[r] = "exited" /\ loc[r].returncode = 0
    /\ Insert(r, "captured")

\* Faulty variant of the redirect: the id is that of the newest row of the table.
RedirectNewest(r) ==
    /\ pc[r] = "redirect"
    /\ Return(r, [NoResponse EXCEPT !.code = 303, !.location = MaxOf(Ids(scans))])
    /\ UNCHANGED <<clock, onPath, usrBin, scans, files, created>>

\* RedirectResponse(url=f"/scan/{rec.id}", status_code=303)
Redirect(r) ==
    /\ pc[r] = "redirect"
    /\ Return(r, [NoResponse EXCEPT !.code = 303, !.location = loc[r].rec.id])
    /\ UNCHANGED <<clock, onPath, usrBin, scans, files, created>>

\* POST /capture, capture_photo() raises RuntimeError: no camera CLI.
CaptureNoCamera(r) ==
    /\ CameraBin = None
    /\ Answer(r, "capture", 0, Html(500, NoCameraMessage))
    /\ UNCHANGED <<clock, onPath, usrBin, scans, files, created>>

\* POST /capture, capture_photo() starts the camera process.
CaptureRun(r) ==
    /\ Receive(r, "capture", 0)
    /\ Pending < MaxScans
    /\ CameraBin # None
    /\ loc' = [loc EXCEPT ![r].out_path = CapturePath(clock), ![r].cam = CameraBin,
                          ![r].runs = loc[r].runs + 1]
    /\ pc' = [pc EXCEPT ![r] = "camera"]
    /\ resp' = NoResponse
    /\ UNCHANGED <<clock, onPath, usrBin, scans, files, created>>

\* The camera process ends; with exit status 0 the still is at the path
\* given with -o.
CameraExit(r, returncode) ==
    /\ pc[r] = "camera"
    /\ files' = IF returncode = 0 THEN WriteFile(loc[r].out_path, CameraStill) ELSE files
    /\ loc' = [loc EXCEPT ![r].returncode = returncode]
    /\ pc' = [pc EXCEPT ![r] = "exited"]
    /\ resp' = NoResponse
    /\ UNCHANGED <<clock, onPath, usrBin, scans, req, created>>

\* Faulty variant of the error path: the camera is started once more.
CaptureRetry(r) ==
    /\ pc[r] = "exited" /\ loc[r].returncode # 0
    /\ IF loc[r].runs < 2
       THEN /\ loc' = [loc EXCEPT ![r].runs = loc[r].runs + 1]
            /\ pc' = [pc EXCEPT ![r] = "camera"]
            /\ resp' = NoResponse
            /\ UNCHANGED req
       ELSE Return(r, Html(500, CaptureFailedMessage))
    /\ UNCHANGED <<clock, onPath, usrBin, scans, files, created>>

\* subprocess.run(check=True) raises CalledProcessError on a non-zero exit
\* status; capture_and_scan() answers 500.
CaptureFailed(r) ==
    /\ pc[r] = "exited" /\ loc[r].returncode # 0
    /\ Return(r, Html(500, CaptureFailedMessage))
    /\ UNCHANGED <<clock, onPath, usrBin, scans, files, created>>

\* Faulty variant of the not-found path: the detail page is rendered without a row.
ScanShowBlank(r, scan_id) ==
    /\ Get(scans, scan_id) = NoScan
    /\ Answer(r, "scan_show", scan_id, Html(200, "scan_show.html"))
    /\ UNCHANGED <<clock, onPath, usrBin, scans, files, created>>

\* GET /scan/{scan_id}, no such row
ScanShowNotFound(r, scan_id) ==
    /\ Get(scans, scan_id) = NoScan
    /\ Answer(r, "scan_show", scan_id, Html(404, NotFoundMessage))
    /\ UNCHANGED <<clock, onPath, usrBin, scans, files, created>>

\* GET /scan/{scan_id}, the row is rendered with its image URL
ScanShowFound(r, scan_id) ==
    /\ Get(scans, scan_id) # NoScan
    /\ LET rec == Get(scans, scan_id)
       IN  Answer(r, "scan_show", scan_id,
                  [Html(200, "scan_show.html") EXCEPT
                      !.scan = rec, !.image_url = fs_path_to_url(rec.image_path)])
    /\ UNCHANGED <<clock, onPath, usrBin, scans, files, created>>

Next ==
    \/ Tick
    \/ \E r \in Workers : Home(r)
    \/ \E r \in Workers : ScanNew(r)
    \/ \E r \in Workers : Specimens(r)
    \/ \E r \in Workers, filename \in Filenames, data \in Blobs :
          SaveUploadBegin(r, filename, data)
    \/ \E r \in Workers : SaveUploadWrite(r)
    \/ \E r \in Workers : InsertUploaded(r)
    \/ \E r \in Workers : InsertCaptured(r)
    \/ \E r \in Workers : Redirect(r)
    \/ \E r \in Workers : CaptureNoCamera(r)
    \/ \E r \in Workers : CaptureRun(r)
    \/ \E r \in Workers, returncode \in ReturnCodes : CameraExit(r, returncode)
    \/ \E r \in Workers : CaptureFailed(r)
    \/ \E r \in Workers, scan_id \in 1..(MaxScans + 1) : ScanShowNotFound(r, scan_id)
    \/ \E r \in Workers, scan_id \in 1..(MaxScans + 1) : ScanShowFound(r, scan_id)

Spec == Init /\ [][Next]_vars

-----------------------------------------------------------------------------
(* Properties *)

\* A path that names a file directly inside the images directory.
UnderImages(path) ==
    /\ Len(path) > Len(IMG_DIR) + 1
    /\ SubSeq(path, 1, Len(IMG_DIR) + 1) = IMG_DIR \o <<"/">>
    /\ \A i \in (Len(IMG_DIR) + 2)..Len(path) : path[i] # "/"

NoCameraInstalled ==
    \A i \in 1..Len(CameraNames) : CameraNames[i] \notin (onPath \cup usrBin)

\* C1: an upload adds exactly one row: the session block of POST /scan adds
\* one row with status "uploaded", no other step of the handler changes the
\* table, and when the handler returns its 303 the row is in the table and
\* its image_path names a file that exists under the images directory.
C1_UploadAddsOneRow ==
    [][\A r \in Workers :
          /\ (req[r].route = "scan" /\ pc[r] = "insert" /\ pc'[r] # pc[r]) =>
                /\ scans \subseteq scans'
                /\ Cardinality(scans' \ scans) = 1
                /\ \A row \in scans' \ scans :
                      row.status = "uploaded" /\ row.image_path = loc[r].out_path
          /\ (req'[r].route = "scan" /\ pc[r] # "insert" /\ pc'[r] # pc[r]) =>
                scans' = scans
          /\ (req[r].route = "scan" /\ pc[r] # "insert" /\ pc'[r] # pc[r]) =>
                scans' = scans
          /\ (req[r].route = "scan" /\ pc[r] # "idle" /\ pc'[r] = "idle") =>
                /\ resp'.worker = r /\ resp'.code = 303
                /\ \E row \in scans' :
                      /\ row.id = resp'.location
                      /\ row.status = "uploaded"
                      /\ row.image_path \in DOMAIN files'
                      /\ UnderImages(row.image_path)
      ]_vars

C1_Witness ==
    /\ resp.code = 303 /\ resp.request.route = "scan"
    /\ \E row \in scans : row.id = resp.location /\ row.status = "uploaded"

\* C2: with neither camera CLI installed no camera process is ever started,
\* and a step that answers POST /capture answers 500 with the message and
\* leaves the table and the images directory as they were.
C2_NoCameraNoRow ==
    [][NoCameraInstalled =>
          \A r \in Workers :
             /\ pc'[r] \notin {"camera", "exited"}
             /\ loc'[r].runs = 0
             /\ (resp'.worker = r /\ resp'.request.route = "capture") =>
                   /\ resp'.code = 500
                   /\ resp'.body = NoCameraMessage
                   /\ scans' = scans
                   /\ files' = files
      ]_vars

C2_Witness ==
    /\ NoCameraInstalled
    /\ resp.request.route = "capture" /\ resp.code = 500

\* C3: every row's image_path names a file that exists under the images
\* directory.
C3_RowHasFile ==
    \A row \in scans : row.image_path \in DOMAIN files /\ UnderImages(row.image_path)

C3_Witness ==
    /\ \E row \in scans : row.status = "uploaded"
    /\ \E row \in scans : row.status = "captured"
    /\ resp.code = 404

\* C4: any two distinct rows have distinct image_path values.
C4_DistinctImagePaths ==
    \A a \in scans : \A b \in scans : a # b => a.image_path # b.image_path

\* C5: GET /scan/{id} for an id that was inserted answers 200 with the row of
\* that id, whose image_path is the one the insert was issued with, and the
\* image URL is /images/ followed by the file name of that path.
C5_ShowReturnsStoredPath ==
    \A c \in created :
       (resp.request.route = "scan_show" /\ resp.request.scan_id = c.id) =>
          /\ resp.code = 200
          /\ resp.scan.id = c.id
          /\ resp.scan.image_path = c.image_path
          /\ \E k \in 1..Len(c.image_path) :
                /\ c.image_path = IMG_DIR \o <<"/">> \o SubSeq(c.image_path, k, Len(c.image_path))
                /\ resp.image_url = <<"/", "images", "/">> \o SubSeq(c.image_path, k, Len(c.image_path))

C5_Witness ==
    /\ resp.request.route = "scan_show" /\ resp.request.scan_id = 1
    /\ resp.code = 200
    /\ Cardinality(scans) = 2

\* C6: GET /scan/{id} for an id that has no row answers 404 and leaves the
\* table and the images directory as they were.
C6_ShowNotFound ==
    [][(resp'.request.route = "scan_show" /\ resp'.request.scan_id \notin Ids(scans)) =>
          /\ resp'.code = 404
          /\ resp'.body = NotFoundMessage
          /\ scans' = scans
          /\ files' = files
      ]_vars

C6_Witness ==
    /\ resp.request.route = "scan_show" /\ resp.code = 404
    /\ scans # {}

\* C7: rows are append-only: every row of the table is in the table,
\* unchanged, after every step.
C7_AppendOnly == [][\A row \in scans : row \in scans']_vars

C7_Witness ==
    /\ Cardinality(scans) = 2
    /\ \E a \in scans : \E b \in scans : a # b /\ a.image_path = b.image_path
    /\ resp.request.route = "scan_show" /\ resp.code = 200

\* C8: after a non-zero exit status the capture handler answers 500 with the
\* message in its next step, without inserting a row, and the camera is
\* started at most once per request.
C8_CaptureFailureNoRetry ==
    [][\A r \in Workers :
          /\ loc'[r].runs <= 1
          /\ (pc[r] = "exited" /\ loc[r].returncode # 0 /\ pc'[r] # pc[r]) =>
                /\ pc'[r] = "idle"
                /\ resp'.worker = r
                /\ resp'.code = 500
                /\ resp'.body = CaptureFailedMessage
                /\ scans' = scans
      ]_vars

C8_Witness ==
    /\ resp.request.route = "capture" /\ resp.code = 500
    /\ resp.body = CaptureFailedMessage

\* C9: every row's status is "uploaded" or "captured"; it is "uploaded" when
\* POST /scan inserted the row and "captured" when POST /capture did, and
\* every row was inserted by one of the two.
C9_StatusByHandler ==
    /\ Ids(scans) = {c.id : c \in created}
    /\ \A row \in scans :
          /\ row.status \in {"uploaded", "captured"}
          /\ \A c \in created :
                c.id = row.id =>
                   /\ c.route \in {"scan", "capture"}
                   /\ row.status = "uploaded" <=> c.route = "scan"
                   /\ row.status = "captured" <=> c.route = "capture"

C9_Witness ==
    /\ \E row \in scans : row.status = "uploaded"
    /\ \E row \in scans : row.status = "captured"
    /\ resp.code = 303

\* C10: the session block of a create handler adds one row whose id no
\* earlier row has; the handler's 303 names that id and the row is in the
\* table; GET /scan/{id} for an id in the table answers 200.
C10_RedirectToOwnRow ==
    [][/\ \A r \in Workers :
             /\ (pc'[r] = "redirect" /\ pc[r] # "redirect") =>
                   /\ scans' \ scans = {loc'[r].rec}
                   /\ loc'[r].rec.id \notin Ids(scans)
             /\ (pc[r] = "redirect" /\ pc'[r] # "redirect") =>
                   /\ resp'.worker = r
                   /\ resp'.code = 303
                   /\ resp'.location = loc[r].rec.id
                   /\ loc[r].rec \in scans'
       /\ (resp'.request.route = "scan_show" /\ resp'.request.scan_id \in Ids(scans)) =>
             resp'.code = 200 /\ resp'.scan.id = resp'.request.scan_id
      ]_vars

C10_Witness ==
    /\ resp.code = 303 /\ resp.location = 1
    /\ Cardinality(scans) = 2

=============================================================================
